---- MODULE Spec2Model ----
(***************************************************************************)
(* Model of src/main.py: a Telegram bot that polls a ticket API.           *)
(*                                                                         *)
(* State: the process-wide registry auto_check_tasks (chat id -> task),    *)
(* the tasks the registry no longer holds but the event loop still has to  *)
(* resume, and the button_callback coroutine in flight.  A task object is  *)
(* modelled by its value.  Everything runs on one cooperative event loop,  *)
(* so each action below is the code executed between two suspension        *)
(* points (an await).  check_tickets() uses the blocking requests.get and  *)
(* therefore runs inside the step that calls it.                           *)
(*                                                                         *)
(* start_bot builds the Application without concurrent_updates, so the     *)
(* transport hands the next update to a handler only after the previous    *)
(* handler coroutine has finished: one button_callback is in flight at a   *)
(* time, interleaved with the loops of all chats.                          *)
(*                                                                         *)
(* Spec is the program as built.  The other specifications look at one     *)
(* aspect each, with the variable history recording what that aspect       *)
(* needs: SpecProber the prober alone, SpecProbe the GET as two steps,     *)
(* SpecRace handlers dispatched concurrently, SpecLive and SpecCancel the   *)
(* loops under a fair event loop, SpecTime the loops with a clock.         *)
(***************************************************************************)
EXTENDS Integers, Sequences, FiniteSets, Bags, TLC

\* ---- bounds of the model ----
\* chat ids the transport delivers presses from
NumChats == 2
\* auto_check_loop tasks that exist at the same time (registered, or
\* popped from the registry and not yet resumed)
MaxTasks == 2
\* largest available_tickets_count the data source reports
MaxCount == 2
\* calls of check_tickets followed when the prober is examined on its own
MaxCalls == 2
\* presses followed when handlers are dispatched concurrently
MaxPresses == 3
\* time that passes in one step of the clock
TimeStep == 10

Chats == 1..NumChats
Actions == {"manual_check", "start_auto", "stop_auto"}

\* ---- the values the program handles, by code ----
\* check_tickets hands on whatever JSON value the data source put in
\* "available_tickets_count".  An integer stands for itself; every other
\* value is coded by an integer at least Far away from 0.
Far == 100
\* Python's None: the failure marker returned by check_tickets, and what a
\* JSON null parses to
None == -Far
\* the JSON number n + 1/2 (n >= 0): a number that is no integer.  Like the
\* number it codes, the code is greater than 0.
Fraction(n) == Far + n
\* the JSON string of the digits of n: a value that is no number
Text(n) == -(2 * Far) - n
\* v > 0 raises TypeError in Python ('>' between str and int)
IsText(v) == v <= -(2 * Far)

\* ---- the availability prober ----
\* body of a 200 response whose JSON has no "available_tickets_count"
NoField == -Far - 2
\* body that response.json() cannot parse
BadBody == -Far - 3
\* status of a request on which requests.get raised (there is no response)
NoResponse == 0
\* one value of each kind that is no count and that a 200 response can hold
\* in "available_tickets_count" all the same: an integer below 0, a number
\* that is no integer, a string
NoCounts == {-1, Fraction(MaxCount), Text(MaxCount)}
\* what a 200 response can hold in "available_tickets_count": a count, a
\* value that is no count, null
FieldValues == (0..MaxCount) \cup NoCounts \cup {None}
\* What one GET can come back with: no response at all, a non-200 status
\* (whose body the code never reads), or a 200 with each kind of body.
Responses ==
    {[status |-> NoResponse, body |-> BadBody], [status |-> 500, body |-> MaxCount]}
    \cup [status : {200}, body : {BadBody, NoField} \cup FieldValues]

\* one response of each kind the callers of check_tickets tell apart: a
\* failure, no tickets, some tickets
Outcomes ==
    {[status |-> NoResponse, body |-> BadBody],
     [status |-> 200, body |-> 0],
     [status |-> 200, body |-> MaxCount]}

\* one response for each way a caller of check_tickets can go on: the three
\* of Outcomes, and the responses whose field is no count (a negative
\* integer goes the way of 0, a fraction the way of a count, a string
\* raises in the caller's comparison)
Replies == Outcomes \cup [status : {200}, body : NoCounts]

\* check_tickets() on the response resp of its GET.  The value of the field
\* is returned as it was parsed (lines 41-43): nothing tests that it is an
\* integer or that it is not negative.
check_tickets(resp) ==
    IF resp.status = NoResponse THEN None
    ELSE IF resp.status = 200
         THEN IF resp.body = BadBody THEN None
              ELSE IF resp.body = NoField THEN 0
              ELSE resp.body
         ELSE None

\* One call of check_tickets() against a data source that would answer the
\* successive GETs with source[1], source[2], ...: the only requests.get is
\* the one of line 38, outside any loop, so the call takes the first answer
\* and leaves the rest to the calls that follow.
probe(source) ==
    [resp |-> Head(source), rest |-> Tail(source),
     result |-> check_tickets(Head(source))]

\* query.answer(text, show_alert): the acknowledgment of a button press
Ack(text, alert) == [text |-> text, show_alert |-> alert]

VARIABLES
    auto_check_tasks,   \* chat id -> task, NoTask when the chat has no entry
    detached,           \* bag of unfinished tasks the registry does not hold
    handler,            \* the button_callback coroutine in flight
    history             \* what a specification records of the run so far

vars == <<auto_check_tasks, detached, handler, history>>

\* value of "last" / "available" before the first probe
NoTick == -Far - 1

\* A task: where its coroutine is suspended (pc), the chat_id it is bound
\* to, whether task.cancel() was called on it, and what its current
\* iteration did: the result of its probe (last) and the counts of the
\* send_message calls it made (msgs).
NoTask ==
    [pc |-> "none", chat |-> 0, cancel_called |-> FALSE,
     last |-> NoTick, msgs |-> <<>>]

\* A handler coroutine: its position, the press it serves, and what it did:
\* calls of check_tickets (probes) and the result of the last one
\* (available), counts of its send_message calls (msgs) and its query.answer
\* calls (acks).
IdleHandler ==
    [pc |-> "idle", chat |-> 0, action |-> "none",
     probes |-> 0, available |-> NoTick, msgs |-> <<>>, acks |-> <<>>]

Init ==
    /\ auto_check_tasks = [c \in Chats |-> NoTask]
    /\ detached = EmptyBag
    /\ handler = IdleHandler
    /\ history = <<>>

\* ---- helpers ----
Registered == {c \in Chats : auto_check_tasks[c] # NoTask}
TaskCount == Cardinality(Registered) + BagCardinality(detached)

\* the event loop keeps resuming a task the registry let go of until the
\* task finishes
Detach(tk) ==
    IF tk.pc \in {"none", "exited"} THEN detached ELSE detached (+) SetToBag({tk})

\* asyncio.create_task(auto_check_loop(context, chat_id)): scheduled, not
\* yet started
create_task(chat_id) == [NoTask EXCEPT !.pc = "created", !.chat = chat_id]

\* task.cancel(): a pending task gets CancelledError when it is next
\* resumed; a finished task ignores the call.
cancel(tk) ==
    IF tk.pc = "exited" THEN tk ELSE [tk EXCEPT !.cancel_called = TRUE]

\* ---- button_callback, from the button press up to its first await ----
\* the coroutine after lines 71-74
Pressed(c, a) == [IdleHandler EXCEPT !.pc = "running", !.chat = c, !.action = a]

\* manual_check that ends the chat's auto check once it has found tickets
manual_check_stops(chat_id, resp) ==
    LET available_tickets == check_tickets(resp)
        hd == [Pressed(chat_id, "manual_check") EXCEPT
                  !.probes = @ + 1, !.available = available_tickets]
    IN IF available_tickets = None
       THEN /\ handler' = [hd EXCEPT !.pc = "answering",
                   !.acks = Append(@, Ack("Error fetching data.", TRUE))]
            /\ UNCHANGED <<auto_check_tasks, detached>>
       ELSE IF available_tickets > 0
       THEN /\ handler' = [hd EXCEPT !.pc = "sending",
                   !.msgs = Append(@, available_tickets)]
            /\ auto_check_tasks' = [auto_check_tasks EXCEPT ![chat_id] = NoTask]
            /\ detached' = Detach(cancel(auto_check_tasks[chat_id]))
       ELSE /\ handler' = [hd EXCEPT !.pc = "answering",
                   !.acks = Append(@, Ack("No tickets available.", FALSE))]
            /\ UNCHANGED <<auto_check_tasks, detached>>

\* "available_tickets > 0" (line 80) raises TypeError for a string: the
\* exception leaves button_callback and the coroutine ends, nothing sent
\* and nothing answered.
manual_check(chat_id, resp) ==
    LET available_tickets == check_tickets(resp)
        hd == [Pressed(chat_id, "manual_check") EXCEPT
                  !.probes = @ + 1, !.available = available_tickets]
    IN /\ handler' =
            IF available_tickets = None
            THEN [hd EXCEPT !.pc = "answering",
                            !.acks = Append(@, Ack("Error fetching data.", TRUE))]
            ELSE IF IsText(available_tickets)
            THEN IdleHandler
            ELSE IF available_tickets > 0
            THEN [hd EXCEPT !.pc = "sending",
                            !.msgs = Append(@, available_tickets)]
            ELSE [hd EXCEPT !.pc = "answering",
                            !.acks = Append(@, Ack("No tickets available.", FALSE))]
       /\ UNCHANGED <<auto_check_tasks, detached>>

\* start_auto without the "chat_id in auto_check_tasks" test: the new task
\* replaces the registered one, which the event loop keeps running
start_auto_overwrite(chat_id) ==
    LET hd == Pressed(chat_id, "start_auto") IN
    /\ TaskCount < MaxTasks
    /\ auto_check_tasks' =
           [auto_check_tasks EXCEPT ![chat_id] = create_task(chat_id)]
    /\ detached' = Detach(auto_check_tasks[chat_id])
    /\ handler' = [hd EXCEPT !.pc = "answering",
           !.acks = Append(@, Ack("Started auto check.", FALSE))]

\* start_auto that restarts the loop of a chat that already has one
start_auto_restart(chat_id) ==
    LET hd == Pressed(chat_id, "start_auto") IN
    IF auto_check_tasks[chat_id] # NoTask
    THEN /\ auto_check_tasks' =
                [auto_check_tasks EXCEPT ![chat_id] = create_task(chat_id)]
         /\ detached' = Detach(cancel(auto_check_tasks[chat_id]))
         /\ handler' = [hd EXCEPT !.pc = "answering",
                !.acks = Append(@, Ack("Auto check already running.", TRUE))]
    ELSE /\ TaskCount < MaxTasks
         /\ auto_check_tasks' =
                [auto_check_tasks EXCEPT ![chat_id] = create_task(chat_id)]
         /\ UNCHANGED detached
         /\ handler' = [hd EXCEPT !.pc = "answering",
                !.acks = Append(@, Ack("Started auto check.", FALSE))]

start_auto(chat_id) ==
    LET hd == Pressed(chat_id, "start_auto") IN
    IF auto_check_tasks[chat_id] # NoTask
    THEN /\ handler' = [hd EXCEPT !.pc = "answering",
                !.acks = Append(@, Ack("Auto check already running.", TRUE))]
         /\ UNCHANGED <<auto_check_tasks, detached>>
    ELSE /\ TaskCount < MaxTasks
         /\ auto_check_tasks' =
                [auto_check_tasks EXCEPT ![chat_id] = create_task(chat_id)]
         /\ UNCHANGED detached
         /\ handler' = [hd EXCEPT !.pc = "answering",
                !.acks = Append(@, Ack("Started auto check.", FALSE))]

\* stop_auto that pops the task and forgets task.cancel()
stop_auto_nocancel(chat_id) ==
    LET hd == Pressed(chat_id, "stop_auto") IN
    IF auto_check_tasks[chat_id] # NoTask
    THEN /\ auto_check_tasks' = [auto_check_tasks EXCEPT ![chat_id] = NoTask]
         /\ detached' = Detach(auto_check_tasks[chat_id])
         /\ handler' = [hd EXCEPT !.pc = "answering",
                !.acks = Append(@, Ack("Stopped auto check.", FALSE))]
    ELSE /\ handler' = [hd EXCEPT !.pc = "answering",
                !.acks = Append(@, Ack("Auto check is not running.", TRUE))]
         /\ UNCHANGED <<auto_check_tasks, detached>>

\* stop_auto that cancels auto_check_tasks[chat_id] and leaves it registered
stop_auto_nopop(chat_id) ==
    LET hd == Pressed(chat_id, "stop_auto") IN
    IF auto_check_tasks[chat_id] # NoTask
    THEN /\ auto_check_tasks' = [auto_check_tasks EXCEPT ![chat_id] = cancel(@)]
         /\ UNCHANGED detached
         /\ handler' = [hd EXCEPT !.pc = "answering",
                !.acks = Append(@, Ack("Stopped auto check.", FALSE))]
    ELSE /\ handler' = [hd EXCEPT !.pc = "answering",
                !.acks = Append(@, Ack("Auto check is not running.", TRUE))]
         /\ UNCHANGED <<auto_check_tasks, detached>>

\* stop_auto that pops whichever entry the registry gives (popitem) instead
\* of the entry of chat_id
stop_auto_popitem(chat_id) ==
    LET hd == Pressed(chat_id, "stop_auto") IN
    IF auto_check_tasks[chat_id] # NoTask
    THEN \E c \in Registered :
         /\ auto_check_tasks' = [auto_check_tasks EXCEPT ![c] = NoTask]
         /\ detached' = Detach(cancel(auto_check_tasks[c]))
         /\ handler' = [hd EXCEPT !.pc = "answering",
                !.acks = Append(@, Ack("Stopped auto check.", FALSE))]
    ELSE /\ handler' = [hd EXCEPT !.pc = "answering",
                !.acks = Append(@, Ack("Auto check is not running.", TRUE))]
         /\ UNCHANGED <<auto_check_tasks, detached>>

stop_auto(chat_id) ==
    LET hd == Pressed(chat_id, "stop_auto") IN
    IF auto_check_tasks[chat_id] # NoTask
    THEN LET tk == auto_check_tasks[chat_id] IN
         /\ auto_check_tasks' = [auto_check_tasks EXCEPT ![chat_id] = NoTask]
         /\ detached' = Detach(cancel(tk))
         /\ handler' = [hd EXCEPT !.pc = "answering",
                !.acks = Append(@, Ack("Stopped auto check.", FALSE))]
    ELSE /\ handler' = [hd EXCEPT !.pc = "answering",
                !.acks = Append(@, Ack("Auto check is not running.", TRUE))]
         /\ UNCHANGED <<auto_check_tasks, detached>>

button_callback(chat_id, action, resp) ==
    /\ handler.pc = "idle"
    /\ CASE action = "manual_check" -> manual_check(chat_id, resp)
         [] action = "start_auto" -> start_auto(chat_id)
         [] action = "stop_auto" -> stop_auto(chat_id)

\* ---- button_callback resumed after an await ----
\* context.bot.send_message returned (ok), or raised (not ok): the exception
\* leaves button_callback and the coroutine ends
manual_check_sent(ok) ==
    /\ handler.pc = "sending"
    /\ handler' =
          IF ok THEN [handler EXCEPT !.pc = "answering",
                                     !.acks = Append(@, Ack("Tickets found!", FALSE))]
          ELSE IdleHandler
    /\ UNCHANGED <<auto_check_tasks, detached>>

\* query.answer returned or raised; only logging follows it, the coroutine ends
answer_returned ==
    /\ handler.pc = "answering"
    /\ handler' = IdleHandler
    /\ UNCHANGED <<auto_check_tasks, detached>>

\* ---- auto_check_loop ----
\* The tasks of the event loop: those the registry holds and those it let
\* go of.
Places == {"registry", "detached"}
TasksAt(where) ==
    IF where = "registry"
    THEN {auto_check_tasks[c] : c \in Registered}
    ELSE BagToSet(detached)

\* the task old, found at where, becomes new; a finished task that nothing
\* refers to is gone
Resume(where, old, new) ==
    IF where = "registry"
    THEN /\ auto_check_tasks' = [auto_check_tasks EXCEPT ![old.chat] = new]
         /\ UNCHANGED <<detached, handler>>
    ELSE /\ detached' =
             IF new.pc = "exited"
             THEN detached (-) SetToBag({old})
             ELSE (detached (-) SetToBag({old})) (+) SetToBag({new})
         /\ UNCHANGED <<auto_check_tasks, handler>>

\* The task after one iteration that got available_tickets from the prober.
\* For a string "available_tickets > 0" (line 117) raises TypeError, which
\* reaches "except Exception" outside the while loop: the coroutine returns.
iteration(tk, available_tickets) ==
    IF available_tickets = None
    THEN [tk EXCEPT !.pc = "sleeping", !.last = available_tickets,
                    !.msgs = <<>>]
    ELSE IF IsText(available_tickets)
    THEN [tk EXCEPT !.pc = "exited", !.last = available_tickets,
                    !.msgs = <<>>]
    ELSE IF available_tickets > 0
    THEN [tk EXCEPT !.pc = "sending", !.last = available_tickets,
                    !.msgs = <<available_tickets>>]
    ELSE [tk EXCEPT !.pc = "sleeping", !.last = available_tickets,
                    !.msgs = <<>>]

\* an iteration that runs although task.cancel() was called (the
\* CancelledError swallowed inside the while loop)
tick_swallows_cancel(where, tk, resp) ==
    LET available_tickets == check_tickets(resp) IN
    /\ tk.pc \in {"created", "sleeping"}
    /\ Resume(where, tk,
          IF available_tickets # None /\ available_tickets > 0
          THEN [tk EXCEPT !.pc = "sending", !.last = available_tickets,
                          !.msgs = <<available_tickets>>]
          ELSE [tk EXCEPT !.pc = "sleeping", !.last = available_tickets,
                          !.msgs = <<>>])

\* an iteration that notifies only when the count differs from the last one
tick_dedupes(where, tk, resp) ==
    LET available_tickets == check_tickets(resp) IN
    /\ tk.pc \in {"created", "sleeping"}
    /\ ~tk.cancel_called
    /\ Resume(where, tk,
          IF available_tickets > 0 /\ available_tickets # tk.last
          THEN [tk EXCEPT !.pc = "sending", !.last = available_tickets,
                          !.msgs = <<available_tickets>>]
          ELSE [tk EXCEPT !.pc = "sleeping", !.last = available_tickets,
                          !.msgs = <<>>])

\* an iteration that leaves the loop when the prober fails
tick_fail_exits(where, tk, resp) ==
    LET available_tickets == check_tickets(resp) IN
    /\ tk.pc \in {"created", "sleeping"}
    /\ ~tk.cancel_called
    /\ Resume(where, tk,
          IF available_tickets = None
          THEN [tk EXCEPT !.pc = "exited", !.last = available_tickets,
                          !.msgs = <<>>]
          ELSE IF available_tickets > 0
          THEN [tk EXCEPT !.pc = "sending", !.last = available_tickets,
                          !.msgs = <<available_tickets>>]
          ELSE [tk EXCEPT !.pc = "sleeping", !.last = available_tickets,
                          !.msgs = <<>>])

\* an iteration under a wait that blocks the thread (time.sleep in place of
\* "await asyncio.sleep"): no loop runs while another loop waits
tick_blocked_by_wait(where, tk, resp) ==
    LET available_tickets == check_tickets(resp) IN
    /\ tk.pc \in {"created", "sleeping"}
    /\ ~tk.cancel_called
    /\ \A w \in Places : \A other \in TasksAt(w) :
           other.chat # tk.chat => other.pc # "sleeping"
    /\ Resume(where, tk, iteration(tk, available_tickets))

\* auto_check_loop without its "while True": one iteration, then nothing
tick_once(where, tk, resp) ==
    LET available_tickets == check_tickets(resp) IN
    /\ tk.pc = "created"
    /\ ~tk.cancel_called
    /\ Resume(where, tk, iteration(tk, available_tickets))

\* One iteration from the top of the while loop (first start, or the sleep
\* returned) up to the next await.
auto_check_loop_tick(where, tk, resp) ==
    LET available_tickets == check_tickets(resp) IN
    /\ tk.pc \in {"created", "sleeping"}
    /\ ~tk.cancel_called
    /\ Resume(where, tk, iteration(tk, available_tickets))

\* context.bot.send_message returned (ok), or raised (not ok) and the
\* exception reached "except Exception" outside the while loop: the
\* coroutine returns, and a registry entry that held the task still does.
auto_check_loop_sent(where, tk, ok) ==
    /\ tk.pc = "sending"
    /\ ~tk.cancel_called
    /\ Resume(where, tk, [tk EXCEPT !.pc = IF ok THEN "sleeping" ELSE "exited"])

\* a send_message shielded from cancellation that never hands the
\* CancelledError on: a task cancelled during its send is not woken
cancelled_only_in_wait(where, tk) ==
    /\ tk.pc \in {"created", "sleeping"}
    /\ tk.cancel_called
    /\ Resume(where, tk, [tk EXCEPT !.pc = "exited"])

\* CancelledError delivered when the task is resumed: at the await it is
\* suspended in ("except asyncio.CancelledError"), or, for a task that never
\* ran, thrown into the unstarted coroutine, outside its try block.  Either
\* way the task finishes.
auto_check_loop_cancelled(where, tk) ==
    /\ tk.pc \in {"created", "sending", "sleeping"}
    /\ tk.cancel_called
    /\ Resume(where, tk, [tk EXCEPT !.pc = "exited"])

\* the program: presses, handler steps and loop steps in any order
Next ==
    \/ /\ \E c \in Chats, resp \in Replies :
             button_callback(c, "manual_check", resp)
       /\ UNCHANGED history
    \/ /\ \E c \in Chats, a \in Actions \ {"manual_check"} :
             button_callback(c, a, [status |-> NoResponse, body |-> BadBody])
       /\ UNCHANGED history
    \/ /\ \E ok \in BOOLEAN : manual_check_sent(ok)
       /\ UNCHANGED history
    \/ /\ answer_returned
       /\ UNCHANGED history
    \/ /\ \E where \in Places : \E tk \in TasksAt(where), resp \in Replies :
             auto_check_loop_tick(where, tk, resp)
       /\ UNCHANGED history
    \/ /\ \E where \in Places : \E tk \in TasksAt(where), ok \in BOOLEAN :
             auto_check_loop_sent(where, tk, ok)
       /\ UNCHANGED history
    \/ /\ \E where \in Places : \E tk \in TasksAt(where) :
             auto_check_loop_cancelled(where, tk)
       /\ UNCHANGED history

Spec == Init /\ [][Next]_vars

TaskOK(tk) ==
    /\ tk.pc \in {"created", "sending", "sleeping", "exited"}
    /\ tk.chat \in Chats
    /\ tk.last \in {NoTick} \cup FieldValues
    /\ tk.pc = "created" <=> tk.last = NoTick

TypeOK ==
    /\ \A c \in Registered : TaskOK(auto_check_tasks[c])
    /\ \A tk \in BagToSet(detached) : TaskOK(tk) /\ tk.pc # "exited"
    /\ IsABag(detached)
    /\ handler.pc \in {"idle", "sending", "answering"}

\* ======================= the prober on its own =======================
\* The data source is fixed at the start: history.source is what it answers
\* to the GETs still to come.  Each step is one call of check_tickets();
\* history.calls records, per call, the response it got, the number of
\* answers it took from the source and what it returned.
InitProber ==
    /\ auto_check_tasks = [c \in Chats |-> NoTask]
    /\ detached = EmptyBag
    /\ handler = IdleHandler
    /\ history \in [source : [1..MaxCalls -> Responses], calls : {<<>>}]

check_tickets_called ==
    /\ history.source # <<>>
    /\ LET p == probe(history.source) IN
       history' = [source |-> p.rest,
                   calls |-> Append(history.calls,
                       [resp |-> p.resp,
                        requests |-> Len(history.source) - Len(p.rest),
                        result |-> p.result])]
    /\ UNCHANGED <<auto_check_tasks, detached, handler>>

NextProber == check_tickets_called

SpecProber == InitProber /\ [][NextProber]_vars

\* ======================= the GET of a probe, as two steps =======================
\* check_tickets() is a plain function that calls the synchronous
\* requests.get; button_callback and auto_check_loop call it without await
\* and without an executor.  From the moment the GET is issued until it
\* returns, the thread of the event loop is inside requests.get: no task
\* is resumed and no update is dispatched.  Here the GET is split at that
\* moment; history tells who is inside requests.get.
Nobody == [who |-> "nobody", chat |-> 0, where |-> "none", task |-> NoTask]

InitProbe ==
    /\ auto_check_tasks = [c \in Chats |-> NoTask]
    /\ detached = EmptyBag
    /\ handler = IdleHandler
    /\ history = Nobody

\* the event loop is free to resume a task or dispatch an update
EventLoopRuns == history = Nobody

\* auto_check_loop reaches check_tickets(): requests.get is called
loop_get_issued(where, tk) ==
    /\ EventLoopRuns
    /\ tk.pc \in {"created", "sleeping"}
    /\ ~tk.cancel_called
    /\ history' = [who |-> "loop", chat |-> tk.chat, where |-> where, task |-> tk]
    /\ UNCHANGED <<auto_check_tasks, detached, handler>>

\* button_callback of a manual_check press reaches check_tickets()
handler_get_issued(chat_id) ==
    /\ EventLoopRuns
    /\ handler.pc = "idle"
    /\ history' = [Nobody EXCEPT !.who = "handler", !.chat = chat_id]
    /\ UNCHANGED <<auto_check_tasks, detached, handler>>

\* requests.get returns or raises; the caller runs on to its next await
get_returned(resp) ==
    /\ history # Nobody
    /\ IF history.who = "loop"
       THEN auto_check_loop_tick(history.where, history.task, resp)
       ELSE button_callback(history.chat, "manual_check", resp)
    /\ history' = Nobody

\* the other steps, taken only while nobody is inside requests.get
loop_sent(where, tk, ok) ==
    EventLoopRuns /\ auto_check_loop_sent(where, tk, ok) /\ UNCHANGED history

loop_cancelled(where, tk) ==
    EventLoopRuns /\ auto_check_loop_cancelled(where, tk) /\ UNCHANGED history

pressed(chat_id, action) ==
    /\ EventLoopRuns
    /\ button_callback(chat_id, action, [status |-> NoResponse, body |-> BadBody])
    /\ UNCHANGED history

handler_resumed ==
    /\ EventLoopRuns
    /\ (\E ok \in BOOLEAN : manual_check_sent(ok)) \/ answer_returned
    /\ UNCHANGED history

NextProbe ==
    \/ \E where \in Places : \E tk \in TasksAt(where) : loop_get_issued(where, tk)
    \/ \E c \in Chats : handler_get_issued(c)
    \/ \E resp \in Responses : get_returned(resp)
    \/ \E where \in Places : \E tk \in TasksAt(where), ok \in BOOLEAN :
          loop_sent(where, tk, ok)
    \/ \E where \in Places : \E tk \in TasksAt(where) : loop_cancelled(where, tk)
    \/ \E c \in Chats, a \in Actions \ {"manual_check"} : pressed(c, a)
    \/ handler_resumed

SpecProbe == InitProbe /\ [][NextProbe]_vars

\* ======================= handlers dispatched concurrently =======================
\* The transport hands every start_auto / stop_auto press to its own
\* button_callback coroutine as soon as the update arrives, so several
\* coroutines exist that have not run yet, and the event loop picks which
\* one runs next.  A coroutine runs from its start to its first await
\* (query.answer) without a suspension: lines 71-74 and 91-96, or 99-103.
\* history.pending holds the presses whose coroutine has not run yet, with
\* whether the chat had a registry entry when the press was dispatched
\* (seen); history.ran lists the presses in the order their coroutines ran,
\* with the acknowledgment each one chose.  The variable handler is the
\* coroutine that ran last, until its query.answer returns.  The loop tasks
\* run as the event loop resumes them; their probes get one response of
\* each kind auto_check_loop tells apart.
InitRace ==
    /\ auto_check_tasks = [c \in Chats |-> NoTask]
    /\ detached = EmptyBag
    /\ handler = IdleHandler
    /\ history = [pending |-> EmptyBag, ran |-> <<>>]

dispatched(chat_id, action) ==
    /\ BagCardinality(history.pending) + Len(history.ran) < MaxPresses
    /\ history' = [history EXCEPT !.pending = @ (+) SetToBag({
           [chat |-> chat_id, action |-> action,
            seen |-> auto_check_tasks[chat_id] # NoTask]})]
    /\ UNCHANGED <<auto_check_tasks, detached, handler>>

\* start_auto with a suspension point between the registry test and the
\* registry update: the update follows what the test saw earlier
race_callback_stale(press) ==
    /\ IF press.action = "stop_auto" THEN stop_auto(press.chat)
       ELSE IF press.seen THEN start_auto(press.chat)
       ELSE start_auto_overwrite(press.chat)
    /\ history' = [pending |-> history.pending (-) SetToBag({press}),
                   ran |-> Append(history.ran,
                       [chat |-> press.chat, action |-> press.action,
                        seen |-> press.seen, ack |-> handler'.acks[1]])]

\* the coroutine of a pending press runs up to its first await
race_callback(press) ==
    /\ IF press.action = "stop_auto" THEN stop_auto(press.chat)
       ELSE start_auto(press.chat)
    /\ history' = [pending |-> history.pending (-) SetToBag({press}),
                   ran |-> Append(history.ran,
                       [chat |-> press.chat, action |-> press.action,
                        seen |-> press.seen, ack |-> handler'.acks[1]])]

NextRace ==
    \/ \E c \in Chats, a \in {"start_auto", "stop_auto"} : dispatched(c, a)
    \/ \E press \in BagToSet(history.pending) : race_callback(press)
    \/ /\ answer_returned
       /\ UNCHANGED history
    \/ /\ \E where \in Places : \E tk \in TasksAt(where), resp \in Outcomes :
             auto_check_loop_tick(where, tk, resp)
       /\ UNCHANGED history
    \/ /\ \E where \in Places : \E tk \in TasksAt(where), ok \in BOOLEAN :
             auto_check_loop_sent(where, tk, ok)
       /\ UNCHANGED history
    \/ /\ \E where \in Places : \E tk \in TasksAt(where) :
             auto_check_loop_cancelled(where, tk)
       /\ UNCHANGED history

SpecRace == InitRace /\ [][NextRace]_vars

\* ======================= the loops under a fair event loop =======================
\* The event loop resumes every task whose await has completed: the timer
\* of asyncio.sleep(30) expires, send_message returns, a CancelledError is
\* delivered.  Here every send_message succeeds.  history names the chat
\* whose loop probed last and flips a bit at each probe, so that each
\* iteration is a step even when it finds what the previous one found.
\* manual_check presses, which touch no task, are left out, and the probes
\* get one response of each kind auto_check_loop tells apart.
InitLive ==
    /\ auto_check_tasks = [c \in Chats |-> NoTask]
    /\ detached = EmptyBag
    /\ handler = IdleHandler
    /\ history = [chat |-> 0, flip |-> 0]

\* the registered loop of chat_id runs an iteration up to its next await
live_tick(chat_id) ==
    /\ \E resp \in Outcomes :
          auto_check_loop_tick("registry", auto_check_tasks[chat_id], resp)
    /\ history' = [chat |-> chat_id, flip |-> 1 - history.flip]

\* send_message of the registered loop of chat_id returns
live_sent(chat_id) ==
    /\ auto_check_loop_sent("registry", auto_check_tasks[chat_id], TRUE)
    /\ UNCHANGED history

\* a cancelled task is resumed with CancelledError
live_cancelled(tk) ==
    /\ \E where \in Places :
          tk \in TasksAt(where) /\ auto_check_loop_cancelled(where, tk)
    /\ UNCHANGED history

NextLive ==
    \/ /\ \E c \in Chats, a \in Actions \ {"manual_check"} :
             button_callback(c, a, [status |-> NoResponse, body |-> BadBody])
       /\ UNCHANGED history
    \/ /\ answer_returned
       /\ UNCHANGED history
    \/ \E c \in Registered : live_tick(c)
    \/ \E c \in Registered : live_sent(c)
    \/ \E where \in Places : \E tk \in TasksAt(where) : live_cancelled(tk)

SpecLive ==
    /\ InitLive
    /\ [][NextLive]_vars
    /\ \A c \in Chats : WF_vars(live_tick(c)) /\ WF_vars(live_sent(c))

\* ======================= cancellation under a fair event loop =======================
\* task.cancel() schedules the task to be resumed with CancelledError, and
\* the event loop resumes every task so scheduled.  history records, for
\* the task that finished last on a CancelledError, where its coroutine
\* stood (at) and how the task ended (outcome).  manual_check presses,
\* which touch no task, are left out, and the probes get one response of
\* each kind auto_check_loop tells apart.
InitCancel ==
    /\ auto_check_tasks = [c \in Chats |-> NoTask]
    /\ detached = EmptyBag
    /\ handler = IdleHandler
    /\ history = [at |-> "none", outcome |-> "none"]

\* How a task ends when CancelledError is delivered.  A coroutine suspended
\* at send_message or asyncio.sleep is inside the try block: line 126
\* catches the error, logs, and the coroutine returns.  A coroutine that
\* never ran gets the error thrown in before its first statement, outside
\* the try block: the error leaves the coroutine and the task ends in the
\* cancelled state.
exit_on_cancel(tk) == IF tk.pc = "created" THEN "cancelled" ELSE "returned"

\* the tasks task.cancel() can have been called on while they were pending
CancelledTasks ==
    {cancel(create_task(c)) : c \in Chats}
    \cup {[pc |-> "sending", chat |-> c, cancel_called |-> TRUE,
           last |-> n, msgs |-> <<n>>] : c \in Chats, n \in {MaxCount}}
    \cup {[pc |-> "sleeping", chat |-> c, cancel_called |-> TRUE,
           last |-> n, msgs |-> IF n > 0 THEN <<n>> ELSE <<>>] :
              c \in Chats, n \in {None, 0, MaxCount}}

\* the cancelled task tk is resumed
cancel_delivered(tk) ==
    /\ \E where \in Places :
          tk \in TasksAt(where) /\ auto_check_loop_cancelled(where, tk)
    /\ history' = [at |-> tk.pc, outcome |-> exit_on_cancel(tk)]

NextCancel ==
    \/ /\ \E c \in Chats, a \in Actions \ {"manual_check"} :
             button_callback(c, a, [status |-> NoResponse, body |-> BadBody])
       /\ UNCHANGED history
    \/ /\ answer_returned
       /\ UNCHANGED history
    \/ /\ \E where \in Places : \E tk \in TasksAt(where), resp \in Outcomes :
             auto_check_loop_tick(where, tk, resp)
       /\ UNCHANGED history
    \/ /\ \E where \in Places : \E tk \in TasksAt(where), ok \in BOOLEAN :
             auto_check_loop_sent(where, tk, ok)
       /\ UNCHANGED history
    \/ \E tk \in CancelledTasks : cancel_delivered(tk)

SpecCancel ==
    /\ InitCancel
    /\ [][NextCancel]_vars
    /\ \A tk \in CancelledTasks : WF_vars(cancel_delivered(tk))

\* ======================= the loops with a clock =======================
\* asyncio.sleep(30) completes once 30 time units have passed since it was
\* called, and the task is resumed some time after that.  history[c] is the
\* time the registered loop of chat c has spent in its current wait, counted
\* up to SLEEP; the clock advances for all waiting loops together.  A
\* cancelled task never probes again, so only registered loops are timed.
\* manual_check presses, which touch no task, are left out.
SLEEP == 30

InitTime ==
    /\ auto_check_tasks = [c \in Chats |-> NoTask]
    /\ detached = EmptyBag
    /\ handler = IdleHandler
    /\ history = [c \in Chats |-> 0]

Min(a, b) == IF a < b THEN a ELSE b

time_passes ==
    /\ history' = [c \in Chats |->
           IF auto_check_tasks[c].pc = "sleeping"
           THEN Min(SLEEP, history[c] + TimeStep) ELSE history[c]]
    /\ UNCHANGED <<auto_check_tasks, detached, handler>>

\* an iteration that does not wait for the timer of asyncio.sleep
timed_tick_early(chat_id, resp) ==
    /\ auto_check_loop_tick("registry", auto_check_tasks[chat_id], resp)
    /\ history' = [history EXCEPT ![chat_id] = 0]

\* The registered loop of chat_id runs an iteration: at once when it was
\* just created, after its asyncio.sleep(30) has completed otherwise.  When
\* the iteration sends nothing it goes straight to a new asyncio.sleep.
timed_tick(chat_id, resp) ==
    /\ auto_check_tasks[chat_id].pc = "sleeping" => history[chat_id] >= SLEEP
    /\ auto_check_loop_tick("registry", auto_check_tasks[chat_id], resp)
    /\ history' = [history EXCEPT ![chat_id] = 0]

\* send_message returns and asyncio.sleep(30) is called, or it raises
timed_sent(chat_id, ok) ==
    /\ auto_check_loop_sent("registry", auto_check_tasks[chat_id], ok)
    /\ history' = [history EXCEPT ![chat_id] = 0]

\* a press of start_auto or stop_auto; a popped task is timed no more and
\* a new task has not waited yet
timed_press(chat_id, action) ==
    /\ button_callback(chat_id, action, [status |-> NoResponse, body |-> BadBody])
    /\ history' = [history EXCEPT ![chat_id] =
           IF auto_check_tasks'[chat_id] = auto_check_tasks[chat_id] THEN @ ELSE 0]

NextTime ==
    \/ time_passes
    \/ \E c \in Chats, a \in Actions \ {"manual_check"} : timed_press(c, a)
    \/ /\ answer_returned
       /\ UNCHANGED history
    \/ \E c \in Registered, resp \in Replies : timed_tick(c, resp)
    \/ \E c \in Registered, ok \in BOOLEAN : timed_sent(c, ok)
    \/ /\ \E tk \in BagToSet(detached) : auto_check_loop_cancelled("detached", tk)
       /\ UNCHANGED history

SpecTime == InitTime /\ [][NextTime]_vars

\* ======================= properties =======================
AllTasks == {auto_check_tasks[c] : c \in Registered} \cup BagToSet(detached)

\* the detached tasks bound to chat c, as a bag
DetachedOf(c) ==
    [r \in {x \in BagToSet(detached) : x.chat = c} |-> detached[r]]

\* the detached tasks of chat c on which task.cancel() was never called
DetachedLive(c) ==
    [r \in {x \in BagToSet(detached) : x.chat = c /\ ~x.cancel_called}
        |-> detached[r]]

\* A loop is live from the moment start_auto creates it until stop_auto
\* cancels it.
LiveLoops(c) ==
    (IF auto_check_tasks[c] # NoTask /\ ~auto_check_tasks[c].cancel_called
     THEN 1 ELSE 0) + BagCardinality(DetachedLive(c))

\* this step is button_callback handling a press of button a from chat c
Handled(c, a) ==
    /\ handler.pc = "idle"
    /\ handler'.pc # "idle"
    /\ handler'.chat = c
    /\ handler'.action = a

\* C1: in every reachable state each chat id has at most one live
\* auto-check loop.
C1_AtMostOneLiveLoop == \A c \in Chats : LiveLoops(c) <= 1

\* a chat with a live loop while an older, cancelled loop of the same chat
\* has not yet been resumed
C1_Witness ==
    \E c \in Chats :
       /\ LiveLoops(c) = 1
       /\ \E r \in BagToSet(detached) : r.chat = c /\ r.cancel_called

\* C2: start_auto for a chat without a registry entry creates exactly one
\* new, not yet started loop bound to that chat, stores it under the chat id
\* and answers "Started"; start_auto for a chat that has an entry is answered
\* "already running" and the registry holds the same task as before, and
\* exactly as many tasks exist as before.
C2_StartAuto ==
    [][\A c \in Chats : Handled(c, "start_auto") =>
          IF auto_check_tasks[c] = NoTask
          THEN /\ auto_check_tasks'[c].pc = "created"
               /\ auto_check_tasks'[c].chat = c
               /\ ~auto_check_tasks'[c].cancel_called
               /\ auto_check_tasks'[c].last = NoTick
               /\ \A d \in Chats \ {c} : auto_check_tasks'[d] = auto_check_tasks[d]
               /\ detached' = detached
               /\ TaskCount' = TaskCount + 1
               /\ handler'.acks = <<Ack("Started auto check.", FALSE)>>
          ELSE /\ auto_check_tasks' = auto_check_tasks
               /\ TaskCount' = TaskCount
               /\ handler'.acks = <<Ack("Auto check already running.", TRUE)>>
      ]_vars

\* a second start_auto was rejected while the loop the first one created is
\* registered and has not even started
C2_Witness ==
    /\ handler.action = "start_auto"
    /\ handler.acks = <<Ack("Auto check already running.", TRUE)>>
    /\ auto_check_tasks[handler.chat].pc = "created"
    /\ ~auto_check_tasks[handler.chat].cancel_called

\* C3: stop_auto for a chat with a registry entry removes the entry and
\* calls cancel on the task in one step, before the handler's first await:
\* after the step the chat has no entry, and the task, unless it had already
\* finished, is pending with its cancellation requested and its position
\* unchanged (the handler did not wait for the loop to observe it).
C3_StopAuto ==
    [][\A c \in Chats :
          (Handled(c, "stop_auto") /\ auto_check_tasks[c] # NoTask) =>
             LET tk == auto_check_tasks[c] IN
             /\ auto_check_tasks' = [auto_check_tasks EXCEPT ![c] = NoTask]
             /\ detached' =
                  IF tk.pc = "exited" THEN detached
                  ELSE detached (+) SetToBag({[tk EXCEPT !.cancel_called = TRUE]})
             /\ handler'.pc = "answering"
             /\ handler'.acks = <<Ack("Stopped auto check.", FALSE)>>
      ]_vars

\* the stop handler is still awaiting its answer, the entry is gone and the
\* cancelled loop is still suspended in its sleep
C3_Witness ==
    /\ handler.action = "stop_auto"
    /\ handler.pc = "answering"
    /\ handler.acks = <<Ack("Stopped auto check.", FALSE)>>
    /\ auto_check_tasks[handler.chat] = NoTask
    /\ \E r \in BagToSet(detached) :
          r.chat = handler.chat /\ r.cancel_called /\ r.pc = "sleeping"

\* C4: a rejected request (start_auto for a chat with an entry, stop_auto
\* for a chat without one) leaves the registry and every task unchanged,
\* sends no message and answers with an alert.
C4_RejectedChangesNothing ==
    [][\A c \in Chats :
          /\ (Handled(c, "start_auto") /\ auto_check_tasks[c] # NoTask) =>
                /\ auto_check_tasks' = auto_check_tasks
                /\ detached' = detached
                /\ handler'.msgs = <<>>
                /\ handler'.acks = <<Ack("Auto check already running.", TRUE)>>
          /\ (Handled(c, "stop_auto") /\ auto_check_tasks[c] = NoTask) =>
                /\ auto_check_tasks' = auto_check_tasks
                /\ detached' = detached
                /\ handler'.msgs = <<>>
                /\ handler'.acks = <<Ack("Auto check is not running.", TRUE)>>
      ]_vars

\* a stop_auto was rejected for a chat without an entry while another chat's
\* loop is registered and running
C4_Witness ==
    /\ handler.action = "stop_auto"
    /\ handler.acks = <<Ack("Auto check is not running.", TRUE)>>
    /\ auto_check_tasks[handler.chat] = NoTask
    /\ \E b \in Registered : auto_check_tasks[b].pc = "sleeping"

\* C5: a step of the handler of a press from chat A leaves the registry
\* entry and every task of any other chat B as they were.
C5_OtherChatsUntouched ==
    [][\A b \in Chats :
          (handler' # handler /\ handler.chat # b /\ handler'.chat # b) =>
             /\ auto_check_tasks'[b] = auto_check_tasks[b]
             /\ DetachedOf(b)' = DetachedOf(b)
      ]_vars

\* chat A's loop was just stopped while chat B's loop is in the middle of a
\* send
C5_Witness ==
    /\ handler.action = "stop_auto"
    /\ handler.acks = <<Ack("Stopped auto check.", FALSE)>>
    /\ \E b \in Registered :
          /\ b # handler.chat
          /\ auto_check_tasks[b].pc = "sending"
          /\ ~auto_check_tasks[b].cancel_called

\* the number of tasks this step pops from the registry whose cancelled
\* value is r
NewlyCancelled(r) ==
    Cardinality({c \in Chats :
        /\ auto_check_tasks[c] # NoTask
        /\ auto_check_tasks'[c] = NoTask
        /\ [auto_check_tasks[c] EXCEPT !.cancel_called = TRUE] = r})

\* C6: a loop whose cancellation was requested takes no further step but its
\* exit: its probe result and its messages never change again, whatever other
\* loops (a new loop of the same chat included) do meanwhile.
C6_CancelledLoopIsSilent ==
    [][\A r \in BagToSet(detached') :
          r.cancel_called =>
             CopiesIn(r, detached') <= CopiesIn(r, detached) + NewlyCancelled(r)
      ]_vars

\* a cancelled loop that never ran its first tick is still pending while a
\* new loop of the same chat has probed a positive count and is sending
C6_Witness ==
    \E c \in Registered :
       /\ auto_check_tasks[c].last > 0
       /\ auto_check_tasks[c].pc = "sending"
       /\ \E r \in BagToSet(detached) :
             r.chat = c /\ r.cancel_called /\ r.pc = "created"

\* C7: the iteration of a loop has called send_message exactly when its
\* probe returned a positive count, once and with that count; an iteration
\* whose probe returned 0 or failed has sent nothing.
C7_SendIffPositive ==
    \A tk \in AllTasks :
       /\ tk.msgs = IF tk.last > 0 THEN <<tk.last>> ELSE <<>>
       /\ tk.pc = "sending" => tk.last > 0

\* one loop has notified the largest count and is back in its wait while
\* another loop's iteration probed 0 and sent nothing
C7_Witness ==
    \E a, b \in Registered :
       /\ auto_check_tasks[a].pc = "sleeping"
       /\ auto_check_tasks[a].last = MaxCount
       /\ auto_check_tasks[a].msgs = <<MaxCount>>
       /\ auto_check_tasks[b].last = 0
       /\ auto_check_tasks[b].msgs = <<>>

C9_OnlyCancellationEndsLoop ==
    \A tk \in AllTasks : tk.pc = "exited" => tk.cancel_called

\* C10: when the handler of a manual_check press ends it has called the
\* prober once and has produced, for a positive count n, one message with n
\* and one non-alerting acknowledgment; for 0, no message and one
\* non-alerting acknowledgment; for a failure, no message and one alerting
\* acknowledgment.
C10_ManualCheckOutputs ==
    [][(handler.action = "manual_check" /\ handler' = IdleHandler) =>
          /\ handler.probes = 1
          /\ Len(handler.acks) = 1
          /\ handler.acks[1].show_alert = (handler.available = None)
          /\ handler.msgs =
                IF handler.available > 0 THEN <<handler.available>> ELSE <<>>
      ]_vars
\* C18: a chat id has a registry entry exactly when the chat has a loop that
\* was created, was not cancelled and has not exited; so "Auto check already
\* running." is answered only while a loop of the chat still runs.
C18_RegistryConsistency ==
    \A c \in Chats :
        (c \in Registered) <=>
            (\E tk \in AllTasks :
                tk.chat = c /\ ~tk.cancel_called /\ tk.pc # "exited")

\* this step is taken by the handler of a manual_check press
ManualCheckStep ==
    \/ \E c \in Chats : Handled(c, "manual_check")
    \/ handler.action = "manual_check" /\ handler' # handler

\* C19: no step of the handler of a manual_check press, whatever the probe
\* returned, changes the registry or any task: no loop is created, cancelled
\* or dropped, and the chats that have a loop stay the same, the pressing
\* chat included.
C19_ManualCheckFrame ==
    [][ManualCheckStep =>
           /\ auto_check_tasks' = auto_check_tasks
           /\ detached' = detached
           /\ \A c \in Chats : LiveLoops(c)' = LiveLoops(c)]_vars

\* a manual check that found tickets and sent them was handled for a chat
\* whose loop is registered and asleep
C19_Witness ==
    /\ handler.action = "manual_check"
    /\ handler.pc = "answering"
    /\ handler.available > 0
    /\ Len(handler.msgs) = 1
    /\ auto_check_tasks[handler.chat].pc = "sleeping"
    /\ ~auto_check_tasks[handler.chat].cancel_called

\* some loop of a chat other than c is in "await asyncio.sleep(30)"
OtherChatWaits(c) ==
    \E tk \in AllTasks : tk.chat # c /\ tk.pc = "sleeping"

\* C13: while the loop of one chat is in its wait, every loop of another
\* chat can take its next step (probe, end of send, exit on cancellation)
\* and the handler can take its next step: an idle handler can handle a
\* start_auto, stop_auto or manual_check press of another chat.
C13_WaitDelaysNobody ==
    /\ \A where \in Places : \A tk \in TasksAt(where) :
          (OtherChatWaits(tk.chat) /\ tk.pc # "exited") =>
             IF tk.cancel_called
             THEN ENABLED auto_check_loop_cancelled(where, tk)
             ELSE IF tk.pc = "sending"
             THEN ENABLED auto_check_loop_sent(where, tk, TRUE)
             ELSE \A resp \in Responses :
                     ENABLED auto_check_loop_tick(where, tk, resp)
    /\ \A c \in Chats :
          OtherChatWaits(c) =>
             IF handler.pc = "idle"
             THEN /\ ENABLED button_callback(c, "stop_auto",
                               [status |-> NoResponse, body |-> BadBody])
                  /\ \A resp \in Responses :
                        ENABLED button_callback(c, "manual_check", resp)
                  /\ (c \in Registered \/ TaskCount < MaxTasks) =>
                        ENABLED button_callback(c, "start_auto",
                               [status |-> NoResponse, body |-> BadBody])
             ELSE ENABLED (manual_check_sent(TRUE) \/ answer_returned)

\* the loop of one chat is in its wait while the loop of another chat was
\* created and has not run yet, and no handler is in flight
C13_Witness ==
    /\ handler.pc = "idle"
    /\ \E c \in Registered, d \in Registered :
          /\ c # d
          /\ auto_check_tasks[c].pc = "sleeping"
          /\ auto_check_tasks[d].pc = "created"

\* v is a count: an integer that is not negative
IsCount(v) == v \in 0..(Far - 1)

\* C14: every call of check_tickets issues one request and returns a
\* non-negative integer or None, whatever the data source answered: the
\* value of the field for a 200 response with a parseable body, 0 when the
\* field is absent, None for a body that cannot be parsed, for a status
\* other than 200 and when the request raised.
C14_ProberResult ==
    \A i \in 1..Len(history.calls) :
        LET call == history.calls[i] IN
        /\ call.requests = 1
        /\ call.result = None \/ IsCount(call.result)
        /\ (call.resp.status = 200 /\ call.resp.body \in FieldValues) =>
               call.result = call.resp.body
        /\ (call.resp.status = 200 /\ call.resp.body = NoField) =>
               call.result = 0
        /\ (call.resp.status = 200 /\ call.resp.body = BadBody) =>
               call.result = None
        /\ call.resp.status # 200 => call.result = None

\* C12: while a loop or a manual check of one chat is waiting for the
\* response to its GET, the loops of the other chats can take their next
\* step and an idle handler can handle a press of another chat.
C12_ProbeSuspendsOnlyCaller ==
    history.who \in {"loop", "handler"} =>
        /\ \A where \in Places : \A tk \in TasksAt(where) :
              (tk.chat # history.chat /\ tk.pc # "exited") =>
                 IF tk.cancel_called THEN ENABLED loop_cancelled(where, tk)
                 ELSE IF tk.pc = "sending" THEN ENABLED loop_sent(where, tk, TRUE)
                 ELSE ENABLED loop_get_issued(where, tk)
        /\ \A c \in Chats :
              (c # history.chat /\ history.who = "loop" /\ handler.pc = "idle") =>
                 ENABLED pressed(c, "stop_auto")

\* The requests served one after the other, as the spec's per-chat state
\* machine (Absent / Running) serves them: whether the request is accepted
\* in the set running of Running chats, and the set after it.
SerialAccepts(running, press) ==
    IF press.action = "start_auto" THEN press.chat \notin running
    ELSE press.chat \in running

SerialAfter(running, press) ==
    IF ~SerialAccepts(running, press) THEN running
    ELSE IF press.action = "start_auto" THEN running \cup {press.chat}
    ELSE running \ {press.chat}

\* serving presses[1..n] from the state where every chat is Absent: the
\* Running chats at the end, and whether each acknowledgment recorded in
\* presses is the one the serial service gives (an alert exactly on
\* rejection)
RECURSIVE SerialRun(_, _)
SerialRun(presses, n) ==
    IF n = 0 THEN [running |-> {}, same |-> TRUE]
    ELSE LET before == SerialRun(presses, n - 1)
             press == presses[n]
         IN [running |-> SerialAfter(before.running, press),
             same |-> /\ before.same
                      /\ press.ack.show_alert =
                            ~SerialAccepts(before.running, press)]

\* C11: whatever the order in which concurrently dispatched start_auto and
\* stop_auto handlers run, the acknowledgments, the registry and the loops
\* are those of serving the same requests one after the other in the order
\* history.ran; two start_auto presses dispatched while the chat had no
\* entry end with one accepted, one rejected and one loop.
C11_RacesAreSerial ==
    LET serial == SerialRun(history.ran, Len(history.ran)) IN
    /\ serial.same
    /\ Registered = serial.running
    /\ \A c \in Chats :
          /\ LiveLoops(c) = IF c \in serial.running THEN 1 ELSE 0
          /\ ( /\ Len(history.ran) = 2
               /\ \A i \in 1..2 :
                     /\ history.ran[i].chat = c
                     /\ history.ran[i].action = "start_auto"
                     /\ ~history.ran[i].seen )
             => /\ history.ran[1].ack = Ack("Started auto check.", FALSE)
                /\ history.ran[2].ack = Ack("Auto check already running.", TRUE)
                /\ Cardinality({tk \in AllTasks : tk.chat = c}) = 1
                /\ BagCardinality(DetachedOf(c)) = 0

\* two start_auto presses of one chat were both dispatched before either
\* coroutine ran, and both coroutines have run
C11_Witness ==
    /\ Len(history.ran) = 2
    /\ history.ran[1].chat = history.ran[2].chat
    /\ \A i \in 1..2 :
          history.ran[i].action = "start_auto" /\ ~history.ran[i].seen
    /\ auto_check_tasks[history.ran[1].chat].pc = "created"

\* C15: a loop that was started and is never stopped, i.e. a chat that from
\* some moment on keeps its registry entry, runs an iteration again and
\* again, whatever its probes return, when every send_message succeeds.
C15_PollingNeverStops ==
    \A c \in Chats :
        <>[](c \in Registered) => []<><<live_tick(c)>>_vars

\* the loop of a chat has just run an iteration that was not the first of
\* the run, after a probe that failed, and is in its wait
C15_Witness ==
    /\ history.chat \in Registered
    /\ history.flip = 0
    /\ auto_check_tasks[history.chat].pc = "sleeping"
    /\ auto_check_tasks[history.chat].last = None
    /\ ~auto_check_tasks[history.chat].cancel_called

\* the cancelled task tk is waiting to be resumed
CancelPending(tk) == BagIn(tk, detached)

\* C16 (as claimed, the part about how the loop exits): every task that
\* ends on a cancellation has caught the CancelledError inside the loop
\* and returned, wherever it stood when it was cancelled.
C16_CancelAbsorbedInLoop ==
    history.at # "none" => history.outcome = "returned"

\* C16 (amended): every loop that stop_auto cancelled is resumed and
\* ends, whether it stood at its wait, at a send or before its first
\* statement; one cancelled at the wait or at a send catches the
\* CancelledError inside the loop and returns; one cancelled before it
\* ever ran never enters the loop and its task ends in the cancelled state.
C16_CancelledLoopExits ==
    /\ \A tk \in CancelledTasks :
          <>[]CancelPending(tk) => []<><<cancel_delivered(tk)>>_vars
    /\ [](history.at \in {"sleeping", "sending"} => history.outcome = "returned")
    /\ [](history.at = "created" => history.outcome = "cancelled")
    /\ [](\A tk \in AllTasks : tk.cancel_called => tk \in CancelledTasks)

\* a loop cancelled during its send has ended, and a loop cancelled during
\* its wait is about to
C16_Witness ==
    /\ history = [at |-> "sending", outcome |-> "returned"]
    /\ \E tk \in BagToSet(detached) : tk.pc = "sleeping" /\ tk.cancel_called

\* this step is an iteration of the registered loop of chat c: the task
\* leaves its creation or its wait and stays registered
ProbeStep(c) ==
    /\ auto_check_tasks[c].pc \in {"created", "sleeping"}
    /\ auto_check_tasks'[c] # NoTask
    /\ auto_check_tasks'[c] # auto_check_tasks[c] \/ history'[c] < history[c]

====
